---- MODULE Spec2Model ----
(***************************************************************************)
(* Model of src/websocket_benchmark.py: the per-connection task            *)
(* BenchmarkBot.measure_latency with its background receive_loop, the load *)
(* driver and aggregation of run_benchmark, the sweep of main with its     *)
(* reachability probe, and the byte layout of the three client frames.     *)
(*                                                                         *)
(* Spec is one call of run_benchmark; FairSpec the same for one bot under  *)
(* fair scheduling; ScenarioSpec one bot against a healthy server;         *)
(* StatsSpec the statistics alone; MainSpec the orchestrator, which sees   *)
(* a level as a call that returns; PacketSpec the packing of a frame;      *)
(* LaunchSpec the batched launch of up to MaxLaunchUsers sessions.         *)
(*                                                                         *)
(* Every session action is one atomic block of the coroutine between two   *)
(* awaits (asyncio is cooperative: nothing interleaves inside a block).    *)
(* A pc value names the await the task is suspended in.  An await followed *)
(* by a sleep with no assignment in between is one suspension.             *)
(*                                                                         *)
(* Time is abstracted.  The only timing fact kept is the order of two      *)
(* timers: the connect timeout (5.0 s after launch) expires before the     *)
(* driver's settle delay (1.0 s + 5 s after the last launch) ends.         *)
(* websocket.send() carries no timeout, so a send may complete arbitrarily *)
(* late or never; every later phase of a session can therefore overlap     *)
(* every later phase of the driver.                                        *)
(*                                                                         *)
(* Latencies are milliseconds, modelled as integers.  The average, a true  *)
(* division in the code, is kept exact as a numerator/denominator pair.    *)
(* total_duration (a wall-clock measurement) is not modelled.              *)
(***************************************************************************)
EXTENDS Integers, Sequences, FiniteSets, TLC

\* ---------------------------------------------------------------- bounds
MaxUsers == 2          \* num_users ranges over 1..MaxUsers
MaxLoad == 2           \* ticks, and server frames, of one level over all bots
MaxSamples == 205      \* longest pooled sequence given to the statistics
MaxShortLen == 5       \* longest exhaustively enumerated pooled sequence
MaxLaunchUsers == 101  \* largest num_users whose launch is enumerated

\* ------------------------------------------------------ program constants
ServerBound_Init == 0
ServerBound_Input == 1
ServerBound_Spawn == 2
AcceptTag == 7         \* msg[0] == 7
batch_size == 50
HandshakeAttempts == 10

\* First bytes the server may send; <<>> is an empty frame.
ServerFrames == {<<>>, <<0>>, <<1>>, <<2>>, <<7>>}
\* Values of (recv_time - send_time) * 1000: the 50 ms tick plus jitter.
LatencyValues == {50, 51}

VARIABLES
    num_users, duration,        \* arguments of run_benchmark
    pc,                         \* per bot: where measure_latency is suspended
    running, connected, spawned, latencies, packets_sent, packets_received,
    attempts,                   \* per bot: iterations done of `for _ in range(10)`
    rpc,                        \* per bot: state of the receive_loop task
    stalled,                    \* bots whose pending send() will never return
    wire,                       \* per bot: tag bytes of the frames sent so far
    dpc, batch_start,           \* run_benchmark: position and batch loop index
    connected_count, spawned_count,   \* locals `connected`, `spawned`
    all_latencies,              \* local all_latencies as pooled (before .sort())
    total_packets_sent, total_packets_received,
    result,                     \* the returned dict
    mpc, case_index,            \* main: position and index i of the sweep loop
    results,                    \* main: the list `results`
    csv_rows,                   \* rows written to the CSV file, header excluded
    bots_made,                  \* BenchmarkBot objects constructed so far by main
    message,                    \* a client message about to be packed
    encoded,                    \* the bytes struct.pack and encode gave for it
    launched                    \* bot ids in the order create_task was called

sessVars == <<pc, running, connected, spawned, latencies, packets_sent,
              packets_received, attempts, rpc, stalled, wire>>
driverVars == <<dpc, batch_start, connected_count, spawned_count, all_latencies,
                total_packets_sent, total_packets_received, result>>
mainVars == <<mpc, case_index, results, csv_rows, bots_made>>
packetVars == <<message, encoded>>
outerVars == <<mainVars, packetVars, launched>>
vars == <<num_users, duration, sessVars, driverVars, outerVars>>

\* bots = [BenchmarkBot(i, url) for i in range(num_users)]
Bots == 0 .. (num_users - 1)
\* Every id a bot can have.
BotIds == 0 .. (MaxUsers - 1)
\* The level's load is shared evenly: each bot's window lasts at most PerBot
\* ticks and the server delivers at most PerBot frames to each bot.
PerBot == MaxLoad \div num_users

\* ------------------------------------------------------------- statistics
\* sum(all_latencies); the additions are grouped by halves to keep the
\* evaluation shallow.
RECURSIVE SumRange(_, _, _)
SumRange(s, lo, hi) ==
    IF lo > hi THEN 0
    ELSE IF lo = hi THEN s[lo]
    ELSE LET mid == (lo + hi) \div 2
         IN  SumRange(s, lo, mid) + SumRange(s, mid + 1, hi)
SeqSum(s) == SumRange(s, 1, Len(s))

SeqMin(s) == CHOOSE x \in {s[i] : i \in 1..Len(s)} : \A i \in 1..Len(s) : x <= s[i]
SeqMax(s) == CHOOSE x \in {s[i] : i \in 1..Len(s)} : \A i \in 1..Len(s) : x >= s[i]

Ascending(a, b) == a < b
SortLatenciesUnsorted(s) == s
SortLatencies(s) == SortSeq(s, Ascending)

\* int(len(all_latencies) * p) for p = num/den; the float product truncates to
\* the exact floor for every length up to 3,000,000 (checked by enumeration).
PercentileIndexOfLast(n, num, den) == ((n - 1) * num) \div den
PercentileIndex(n, num, den) == (n * num) \div den

MedianIndex(n) == n \div 2

EmptyStatsSentinel ==
    [avg_latency |-> [num |-> 0, den |-> 1], median_latency |-> 0,
     p95_latency |-> 0, p99_latency |-> 0, p99_5_latency |-> -1,
     min_latency |-> 0, max_latency |-> 0]
EmptyStats ==
    [avg_latency |-> [num |-> 0, den |-> 1], median_latency |-> 0,
     p95_latency |-> 0, p99_latency |-> 0, p99_5_latency |-> 0,
     min_latency |-> 0, max_latency |-> 0]

\* Zero-based Python index i of list s.
At(s, i) == s[i + 1]

LatencyStats(pooled) ==
    IF pooled # <<>>
    THEN LET sorted == SortLatencies(pooled)
             n == Len(sorted)
         IN  [avg_latency |-> [num |-> SeqSum(sorted), den |-> n],
              median_latency |-> At(sorted, MedianIndex(n)),
              p95_latency |-> At(sorted, PercentileIndex(n, 95, 100)),
              p99_latency |-> At(sorted, PercentileIndex(n, 99, 100)),
              p99_5_latency |-> At(sorted, PercentileIndex(n, 995, 1000)),
              min_latency |-> SeqMin(sorted),
              max_latency |-> SeqMax(sorted)]
    ELSE EmptyStats

\* ---------------------------------------------------------------- pooling
\* `for bot in bots:` over bots[0 .. k-1], in list order.
RECURSIVE PoolLatenciesNewestFirst(_)
PoolLatenciesNewestFirst(k) ==
    IF k = 0 THEN <<>> ELSE latencies[k - 1] \o PoolLatenciesNewestFirst(k - 1)
RECURSIVE PoolLatencies(_)
PoolLatencies(k) ==
    IF k = 0 THEN <<>> ELSE PoolLatencies(k - 1) \o latencies[k - 1]

RECURSIVE SumPacketsSentSkipFirst(_)
SumPacketsSentSkipFirst(k) ==
    IF k <= 1 THEN 0 ELSE SumPacketsSentSkipFirst(k - 1) + packets_sent[k - 1]
RECURSIVE SumPacketsSent(_)
SumPacketsSent(k) ==
    IF k = 0 THEN 0 ELSE SumPacketsSent(k - 1) + packets_sent[k - 1]

RECURSIVE SumPacketsReceived(_)
SumPacketsReceived(k) ==
    IF k = 0 THEN 0 ELSE SumPacketsReceived(k - 1) + packets_received[k - 1]

CountConnectedStillOpen == Cardinality({b \in Bots : connected[b] /\ running[b]})
CountConnected == Cardinality({b \in Bots : connected[b]})
CountSpawned == Cardinality({b \in Bots : spawned[b]})

NoResult == [users |-> 0]

\* main is not part of the run: run_benchmark is called directly.
NoMain ==
    /\ mpc = "off" /\ case_index = 0 /\ results = <<>> /\ csv_rows = <<>>
    /\ bots_made = 0
\* No message is being packed.
NoPacket == message = [kind |-> "none"] /\ encoded = <<>>

\* ------------------------------------------------------------------- Init
Init ==
    /\ num_users \in 1..MaxUsers
    /\ duration \in 1..PerBot
    /\ pc = [b \in Bots |-> "created"]
    /\ running = [b \in Bots |-> TRUE]
    /\ connected = [b \in Bots |-> FALSE]
    /\ spawned = [b \in Bots |-> FALSE]
    /\ latencies = [b \in Bots |-> <<>>]
    /\ packets_sent = [b \in Bots |-> 0]
    /\ packets_received = [b \in Bots |-> 0]
    /\ attempts = [b \in Bots |-> 0]
    /\ rpc = [b \in Bots |-> "none"]
    /\ stalled = {}
    /\ wire = [b \in Bots |-> <<>>]
    /\ dpc = "launch"
    /\ batch_start = 0
    /\ connected_count = 0
    /\ spawned_count = 0
    /\ all_latencies = <<>>
    /\ total_packets_sent = 0
    /\ total_packets_received = 0
    /\ result = NoResult
    /\ launched = <<>>
    /\ NoMain /\ NoPacket

\* ------------------------------------------------------- session: helpers
Active(b) == b \in Bots /\ b \notin stalled

\* The first step of a task made by create_task is already queued when its
\* creator suspends, so it runs before the creator resumes from that
\* suspension (the ready queue is first-in first-out).  A send that returns
\* without suspending lets the creator run on to its next await first.
ReceiveTaskStarted(b) == rpc[b] # "ready"

\* BenchmarkBot.disconnect up to `await ...close()`: self.websocket is set
\* on every path that reaches it.
disconnect(b) ==
    /\ running' = [running EXCEPT ![b] = FALSE]
    /\ pc' = [pc EXCEPT ![b] = "closing"]

\* receive_task.cancel()
cancel(b) ==
    rpc' = [rpc EXCEPT ![b] = IF @ \in {"ready", "recv"} THEN "cancelled" ELSE @]

\* websocket.send(frame) returned: the frame is on the wire and is counted.
Sent(b, tag) ==
    /\ wire' = [wire EXCEPT ![b] = Append(@, tag)]
    /\ packets_sent' = [packets_sent EXCEPT ![b] = @ + 1]

SendStates == {"init", "spawn1", "spawn2", "input"}

\* --------------------------------------------------- session: main task
\* connect(): websockets.connect under wait_for(timeout=5.0).
ConnectOk(b) ==
    /\ Active(b) /\ pc[b] = "connect"
    /\ connected' = [connected EXCEPT ![b] = TRUE]
    /\ pc' = [pc EXCEPT ![b] = "init"]
    /\ UNCHANGED <<outerVars, num_users, duration, running, spawned, latencies, packets_sent,
                   packets_received, attempts, rpc, stalled, wire, driverVars>>

ConnectFailMarksConnected(b) ==
    /\ Active(b) /\ pc[b] = "connect"
    /\ connected' = [connected EXCEPT ![b] = TRUE]
    /\ pc' = [pc EXCEPT ![b] = "failed"]
    /\ UNCHANGED <<outerVars, num_users, duration, running, spawned, latencies,
                   packets_sent, packets_received, attempts, rpc, stalled, wire,
                   driverVars>>
\* connect() returns False and measure_latency returns.
ConnectFail(b) ==
    /\ Active(b) /\ pc[b] = "connect"
    /\ pc' = [pc EXCEPT ![b] = "failed"]
    /\ UNCHANGED <<outerVars, num_users, duration, running, connected, spawned, latencies,
                   packets_sent, packets_received, attempts, rpc, stalled, wire,
                   driverVars>>

\* The peer stops reading: the pending send(), which has no timeout, never returns.
SendHangs(b) ==
    /\ Active(b) /\ pc[b] \in SendStates
    /\ stalled' = stalled \cup {b}
    /\ UNCHANGED <<outerVars, num_users, duration, pc, running, connected, spawned, latencies,
                   packets_sent, packets_received, attempts, rpc, wire, driverVars>>

InitSendOkStartsReceiver(b) ==
    /\ Active(b) /\ pc[b] = "init"
    /\ Sent(b, ServerBound_Init)
    /\ pc' = [pc EXCEPT ![b] = "accept"]
    /\ rpc' = [rpc EXCEPT ![b] = "ready"]
    /\ UNCHANGED <<outerVars, num_users, duration, running, connected, spawned, latencies,
                   packets_received, attempts, stalled, driverVars>>
InitSendOk(b) ==
    /\ Active(b) /\ pc[b] = "init"
    /\ Sent(b, ServerBound_Init)
    /\ pc' = [pc EXCEPT ![b] = "accept"]
    /\ UNCHANGED <<outerVars, num_users, duration, running, connected, spawned, latencies,
                   packets_received, attempts, rpc, stalled, driverVars>>

InitSendFailReconnects(b) ==
    /\ Active(b) /\ pc[b] = "init"
    /\ pc' = [pc EXCEPT ![b] = "connect"]
    /\ UNCHANGED <<outerVars, num_users, duration, running, connected, spawned,
                   latencies, packets_sent, packets_received, attempts, rpc,
                   stalled, wire, driverVars>>
\* send raises: outer `except Exception: pass`, then `finally: disconnect()`.
InitSendFail(b) ==
    /\ Active(b) /\ pc[b] = "init"
    /\ disconnect(b)
    /\ UNCHANGED <<outerVars, num_users, duration, connected, spawned, latencies, packets_sent,
                   packets_received, attempts, rpc, stalled, wire, driverVars>>

AfterAttemptGated(b, found) ==
    IF found
    THEN /\ pc' = [pc EXCEPT ![b] = "settle"]
         /\ attempts' = [attempts EXCEPT ![b] = 0]
    ELSE IF attempts[b] + 1 = HandshakeAttempts
    THEN /\ pc' = [pc EXCEPT ![b] = "failed"]
         /\ attempts' = [attempts EXCEPT ![b] = 0]
    ELSE /\ attempts' = [attempts EXCEPT ![b] = @ + 1]
         /\ UNCHANGED pc
\* The loop `for _ in range(10)` ends by exhaustion or break; sleep(0.1) follows.
\* The loop index is dead after the loop and is reset.
AfterAttempt(b, found) ==
    IF found \/ attempts[b] + 1 = HandshakeAttempts
    THEN /\ pc' = [pc EXCEPT ![b] = "settle"]
         /\ attempts' = [attempts EXCEPT ![b] = 0]
    ELSE /\ attempts' = [attempts EXCEPT ![b] = @ + 1]
         /\ UNCHANGED pc

AcceptRecv(b, msg) ==
    /\ Active(b) /\ pc[b] = "accept"
    /\ packets_received[b] < PerBot
    /\ packets_received' = [packets_received EXCEPT ![b] = @ + 1]
    /\ AfterAttempt(b, Len(msg) > 0 /\ msg[1] = AcceptTag)
    /\ UNCHANGED <<outerVars, num_users, duration, running, connected, spawned, latencies,
                   packets_sent, rpc, stalled, wire, driverVars>>

AcceptTimeout(b) ==
    /\ Active(b) /\ pc[b] = "accept"
    /\ AfterAttempt(b, FALSE)
    /\ UNCHANGED <<outerVars, num_users, duration, running, connected, spawned, latencies,
                   packets_sent, packets_received, rpc, stalled, wire, driverVars>>

\* recv raises something other than TimeoutError (connection closed).
AcceptError(b) ==
    /\ Active(b) /\ pc[b] = "accept"
    /\ disconnect(b)
    /\ UNCHANGED <<outerVars, num_users, duration, connected, spawned, latencies, packets_sent,
                   packets_received, attempts, rpc, stalled, wire, driverVars>>

\* sleep(0.1) over: create_task(receive_loop()), then spawn_bot() awaits send.
StartReceiveTask(b) ==
    /\ Active(b) /\ pc[b] = "settle"
    /\ rpc' = [rpc EXCEPT ![b] = "ready"]
    /\ pc' = [pc EXCEPT ![b] = "spawn1"]
    /\ UNCHANGED <<outerVars, num_users, duration, running, connected, spawned, latencies,
                   packets_sent, packets_received, attempts, stalled, wire,
                   driverVars>>

NextAfterSpawnOnce(b) == "loop"
NextAfterSpawn(b) == IF pc[b] = "spawn1" THEN "spawn2" ELSE "loop"

\* spawn_bot() returns True; the caller sleeps (0.2 or 0.5).
SpawnSendOk(b) ==
    /\ Active(b) /\ pc[b] \in {"spawn1", "spawn2"}
    /\ pc[b] = "spawn2" => ReceiveTaskStarted(b)
    /\ Sent(b, ServerBound_Spawn)
    /\ pc' = [pc EXCEPT ![b] = NextAfterSpawn(b)]
    /\ UNCHANGED <<outerVars, num_users, duration, running, connected, spawned, latencies,
                   packets_received, attempts, rpc, stalled, driverVars>>

\* spawn_bot() catches the error and returns False; the caller ignores it.
SpawnSendFail(b) ==
    /\ Active(b) /\ pc[b] \in {"spawn1", "spawn2"}
    /\ pc[b] = "spawn2" => ReceiveTaskStarted(b)
    /\ pc' = [pc EXCEPT ![b] = NextAfterSpawn(b)]
    /\ UNCHANGED <<outerVars, num_users, duration, running, connected, spawned, latencies,
                   packets_sent, packets_received, attempts, rpc, stalled, wire,
                   driverVars>>

LoopTestIgnoresFlag(b, open) ==
    IF open
    THEN /\ pc' = [pc EXCEPT ![b] = "input"]
         /\ UNCHANGED <<running, rpc>>
    ELSE /\ cancel(b)
         /\ disconnect(b)
\* `while time.time() < end_time and self.running`, then either the next
\* send is awaited or the loop is left: cancel(), finally disconnect().
LoopTest(b, open) ==
    IF open /\ running[b]
    THEN /\ pc' = [pc EXCEPT ![b] = "input"]
         /\ UNCHANGED <<running, rpc>>
    ELSE /\ cancel(b)
         /\ disconnect(b)

\* sleep(0.5) over; end_time = time.time() + duration; first test of the loop.
EnterLoop(b) ==
    /\ Active(b) /\ pc[b] = "loop"
    /\ LoopTest(b, TRUE)
    /\ UNCHANGED <<outerVars, num_users, duration, connected, spawned, latencies, packets_sent,
                   packets_received, attempts, stalled, wire, driverVars>>

InputSendOkCountsReceived(b) ==
    /\ Active(b) /\ pc[b] = "input"
    /\ wire' = [wire EXCEPT ![b] = Append(@, ServerBound_Input)]
    /\ packets_received' = [packets_received EXCEPT ![b] = @ + 1]
    /\ pc' = [pc EXCEPT ![b] = "tick"]
    /\ UNCHANGED <<outerVars, num_users, duration, running, connected, spawned,
                   latencies, packets_sent, attempts, rpc, stalled, driverVars>>
InputSendOk(b) ==
    /\ Active(b) /\ pc[b] = "input"
    /\ Sent(b, ServerBound_Input)
    /\ pc' = [pc EXCEPT ![b] = "tick"]
    /\ UNCHANGED <<outerVars, num_users, duration, running, connected, spawned, latencies,
                   packets_received, attempts, rpc, stalled, driverVars>>

InputSendFailRecordsSample(b) ==
    /\ Active(b) /\ pc[b] = "input"
    /\ latencies' = [latencies EXCEPT ![b] = Append(@, 50)]
    /\ cancel(b)
    /\ disconnect(b)
    /\ UNCHANGED <<outerVars, num_users, duration, connected, spawned, packets_sent,
                   packets_received, attempts, stalled, wire, driverVars>>
\* `except Exception: break`
InputSendFail(b) ==
    /\ Active(b) /\ pc[b] = "input"
    /\ cancel(b)
    /\ disconnect(b)
    /\ UNCHANGED <<outerVars, num_users, duration, connected, spawned, latencies, packets_sent,
                   packets_received, attempts, stalled, wire, driverVars>>

TickSkipsLastSample(b, latency, elapsed) ==
    /\ Active(b) /\ pc[b] = "tick"
    /\ Len(latencies[b]) + 1 >= duration => elapsed
    /\ latencies' = [latencies EXCEPT ![b] = IF elapsed THEN @ ELSE Append(@, latency)]
    /\ LoopTest(b, ~elapsed)
    /\ UNCHANGED <<outerVars, num_users, duration, connected, spawned, packets_sent,
                   packets_received, attempts, stalled, wire, driverVars>>
\* sleep(0.05) over: the sample is appended and the loop condition is tested.
\* Each completed iteration takes at least one tick, so after `duration`
\* iterations the window has elapsed; slow sends may end it earlier.
Tick(b, latency, elapsed) ==
    /\ Active(b) /\ pc[b] = "tick"
    /\ Len(latencies[b]) + 1 >= duration => elapsed
    /\ latencies' = [latencies EXCEPT ![b] = Append(@, latency)]
    /\ LoopTest(b, ~elapsed)
    /\ UNCHANGED <<outerVars, num_users, duration, connected, spawned, packets_sent,
                   packets_received, attempts, stalled, wire, driverVars>>

CloseResetsConnected(b) ==
    /\ Active(b) /\ pc[b] = "closing"
    /\ pc' = [pc EXCEPT ![b] = "closed"]
    /\ connected' = [connected EXCEPT ![b] = FALSE]
    /\ UNCHANGED <<outerVars, num_users, duration, running, spawned, latencies,
                   packets_sent, packets_received, attempts, rpc, stalled, wire,
                   driverVars>>
\* wait_for(websocket.close(), 1.0) returned, raised or timed out.
Close(b) ==
    /\ Active(b) /\ pc[b] = "closing"
    /\ pc' = [pc EXCEPT ![b] = "closed"]
    /\ UNCHANGED <<outerVars, num_users, duration, running, connected, spawned, latencies,
                   packets_sent, packets_received, attempts, rpc, stalled, wire,
                   driverVars>>

\* ------------------------------------------------ session: receive_loop
RecvNext(b) == IF running[b] THEN "recv" ELSE "done"

\* First run of the task: `while self.running`.
RecvStart(b) ==
    /\ b \in Bots /\ rpc[b] = "ready"
    /\ rpc' = [rpc EXCEPT ![b] = RecvNext(b)]
    /\ UNCHANGED <<outerVars, num_users, duration, pc, running, connected, spawned, latencies,
                   packets_sent, packets_received, attempts, stalled, wire,
                   driverVars>>

RecvMsgCountsSpawnOnly(b, msg) ==
    /\ b \in Bots /\ rpc[b] = "recv"
    /\ packets_received[b] < PerBot
    /\ packets_received' = [packets_received EXCEPT ![b] =
                                IF Len(msg) > 0 /\ (msg[1] = 0 \/ msg[1] = 2)
                                THEN @ + 1 ELSE @]
    /\ spawned' = [spawned EXCEPT ![b] =
                      IF Len(msg) > 0 /\ (msg[1] = 0 \/ msg[1] = 2) THEN TRUE ELSE @]
    /\ rpc' = [rpc EXCEPT ![b] = RecvNext(b)]
    /\ UNCHANGED <<outerVars, num_users, duration, pc, running, connected, latencies,
                   packets_sent, attempts, stalled, wire, driverVars>>
RecvMsg(b, msg) ==
    /\ b \in Bots /\ rpc[b] = "recv"
    /\ packets_received[b] < PerBot
    /\ packets_received' = [packets_received EXCEPT ![b] = @ + 1]
    /\ spawned' = [spawned EXCEPT ![b] =
                      IF Len(msg) > 0 /\ (msg[1] = 0 \/ msg[1] = 2) THEN TRUE ELSE @]
    /\ rpc' = [rpc EXCEPT ![b] = RecvNext(b)]
    /\ UNCHANGED <<outerVars, num_users, duration, pc, running, connected, latencies,
                   packets_sent, attempts, stalled, wire, driverVars>>

\* asyncio.TimeoutError: continue
RecvTimeout(b) ==
    /\ b \in Bots /\ rpc[b] = "recv"
    /\ rpc' = [rpc EXCEPT ![b] = RecvNext(b)]
    /\ UNCHANGED <<outerVars, num_users, duration, pc, running, connected, spawned, latencies,
                   packets_sent, packets_received, attempts, stalled, wire,
                   driverVars>>

\* bare `except: break` on a receive error other than a timeout.
RecvError(b) ==
    /\ b \in Bots /\ rpc[b] = "recv"
    /\ rpc' = [rpc EXCEPT ![b] = "done"]
    /\ UNCHANGED <<outerVars, num_users, duration, pc, running, connected, spawned, latencies,
                   packets_sent, packets_received, attempts, stalled, wire,
                   driverVars>>

\* The CancelledError of receive_task.cancel() reaches the task: the bare
\* `except: break` ends it (a task cancelled before its first step never runs).
RecvCancelled(b) ==
    /\ b \in Bots /\ rpc[b] = "cancelled"
    /\ rpc' = [rpc EXCEPT ![b] = "done"]
    /\ UNCHANGED <<outerVars, num_users, duration, pc, running, connected, spawned, latencies,
                   packets_sent, packets_received, attempts, stalled, wire,
                   driverVars>>

\* ----------------------------------------------------------------- driver
LaunchBatchSkipsLast ==
    /\ dpc = "launch"
    /\ LET batch_end == IF batch_start + batch_size < num_users
                        THEN batch_start + batch_size - 1 ELSE num_users
       IN  /\ pc' = [b \in Bots |->
                        IF batch_start <= b /\ b < batch_end THEN "connect" ELSE pc[b]]
           /\ launched' = launched \o [i \in 1..(batch_end - batch_start) |->
                                           batch_start + i - 1]
           /\ batch_start' = batch_start + batch_size
           /\ dpc' = IF batch_start + batch_size < num_users THEN "launch" ELSE "settle"
    /\ UNCHANGED <<mainVars, packetVars, num_users, duration, running, connected,
                   spawned, latencies, packets_sent, packets_received, attempts, rpc,
                   stalled, wire, connected_count, spawned_count, all_latencies,
                   total_packets_sent, total_packets_received, result>>
\* One pass of `for batch_start in range(0, num_users, batch_size)`.
LaunchBatch ==
    /\ dpc = "launch"
    /\ LET batch_end == IF batch_start + batch_size < num_users
                        THEN batch_start + batch_size ELSE num_users
       IN  /\ pc' = [b \in Bots |->
                        IF batch_start <= b /\ b < batch_end THEN "connect" ELSE pc[b]]
           /\ launched' = launched \o [i \in 1..(batch_end - batch_start) |->
                                           batch_start + i - 1]
           /\ batch_start' = batch_start + batch_size
           /\ dpc' = IF batch_start + batch_size < num_users THEN "launch" ELSE "settle"
    /\ UNCHANGED <<mainVars, packetVars, num_users, duration, running, connected,
                   spawned, latencies, packets_sent, packets_received, attempts, rpc,
                   stalled, wire, connected_count, spawned_count, all_latencies,
                   total_packets_sent, total_packets_received, result>>

\* Every connect timeout (5.0 s) has expired when sleep(1.0); sleep(5) ends.
ConnectTimeoutsExpired == \A b \in Bots : pc[b] # "connect"

\* connected = sum(...); spawned = sum(...), then the wait for the window.
CountFlags ==
    /\ dpc = "settle"
    /\ ConnectTimeoutsExpired
    /\ connected_count' = CountConnected
    /\ spawned_count' = CountSpawned
    /\ dpc' = "window"
    /\ UNCHANGED <<outerVars, num_users, duration, sessVars, batch_start, all_latencies,
                   total_packets_sent, total_packets_received, result>>

\* `for bot in bots: bot.running = False`, then sleep(1).
StopBots ==
    /\ dpc = "window"
    /\ running' = [b \in Bots |-> FALSE]
    /\ dpc' = "collect"
    /\ UNCHANGED <<outerVars, num_users, duration, pc, connected, spawned, latencies,
                   packets_sent, packets_received, attempts, rpc, stalled, wire,
                   batch_start, connected_count, spawned_count, all_latencies,
                   total_packets_sent, total_packets_received, result>>

LevelResult(stats) ==
    [users |-> num_users,
     connected |-> connected_count,
     spawned |-> spawned_count,
     packets_sent |-> SumPacketsSent(num_users),
     packets_received |-> SumPacketsReceived(num_users),
     success_rate |-> [num |-> connected_count * 100, den |-> num_users]]
    @@ stats

CollectDraining ==
    /\ dpc = "collect"
    /\ all_latencies' = PoolLatencies(num_users)
    /\ total_packets_sent' = SumPacketsSent(num_users)
    /\ total_packets_received' = SumPacketsReceived(num_users)
    /\ result' = LevelResult(LatencyStats(PoolLatencies(num_users)))
    /\ latencies' = [b \in Bots |-> <<>>]
    /\ dpc' = "done"
    /\ UNCHANGED <<outerVars, num_users, duration, pc, running, connected, spawned,
                   packets_sent, packets_received, attempts, rpc, stalled, wire,
                   batch_start, connected_count, spawned_count>>
CollectNeedsSamples ==
    /\ dpc = "collect"
    /\ PoolLatencies(num_users) # <<>>
    /\ all_latencies' = PoolLatencies(num_users)
    /\ total_packets_sent' = SumPacketsSent(num_users)
    /\ total_packets_received' = SumPacketsReceived(num_users)
    /\ result' = LevelResult(LatencyStats(PoolLatencies(num_users)))
    /\ dpc' = "done"
    /\ UNCHANGED <<outerVars, num_users, duration, sessVars, batch_start,
                   connected_count, spawned_count>>
\* Pooling, statistics and the returned dict: no await in between.
Collect ==
    /\ dpc = "collect"
    /\ all_latencies' = PoolLatencies(num_users)
    /\ total_packets_sent' = SumPacketsSent(num_users)
    /\ total_packets_received' = SumPacketsReceived(num_users)
    /\ result' = LevelResult(LatencyStats(PoolLatencies(num_users)))
    /\ dpc' = "done"
    /\ UNCHANGED <<outerVars, num_users, duration, sessVars, batch_start, connected_count,
                   spawned_count>>

\* ------------------------------------------------------------------- Next
SessionStep(b) ==
    \/ ConnectOk(b) \/ ConnectFail(b)
    \/ InitSendOk(b) \/ InitSendFail(b)
    \/ \E msg \in ServerFrames : AcceptRecv(b, msg)
    \/ AcceptTimeout(b) \/ AcceptError(b)
    \/ StartReceiveTask(b)
    \/ SpawnSendOk(b) \/ SpawnSendFail(b)
    \/ EnterLoop(b)
    \/ InputSendOk(b) \/ InputSendFail(b)
    \/ \E latency \in LatencyValues, elapsed \in BOOLEAN : Tick(b, latency, elapsed)
    \/ Close(b)

ReceiveStep(b) ==
    \/ RecvStart(b)
    \/ \E msg \in ServerFrames : RecvMsg(b, msg)
    \/ RecvTimeout(b)
    \/ RecvError(b)
    \/ RecvCancelled(b)

DriverStep == LaunchBatch \/ CountFlags \/ StopBots \/ Collect

Next ==
    \/ DriverStep
    \/ \E b \in BotIds : SessionStep(b)
    \/ \E b \in BotIds : ReceiveStep(b)

Spec == Init /\ [][Next]_vars

\* ------------------------------------------------- fair scheduling, one bot
\* The event loop runs every task whose await has completed, and every
\* timer, timeout and I/O completion is eventually delivered.  The server
\* may stop reading at any time (SendHangs).
FairInit == Init /\ num_users = 1

FairNext == Next \/ \E b \in BotIds : SendHangs(b)

FairSpec ==
    /\ FairInit
    /\ [][FairNext]_vars
    /\ WF_vars(DriverStep)
    /\ \A b \in BotIds : WF_vars(SessionStep(b)) /\ WF_vars(ReceiveStep(b))

\* ------------------------------------------- the statistics on their own
SampleValues == {10, 20, 30, 40, 100}

\* n distinct values 50 + (i * stride mod 211) in a stride-dependent order.
Pattern(n, stride) == [i \in 1..n |-> 50 + ((i * stride) % 211)]

StatsInputs ==
    UNION {[1..n -> SampleValues] : n \in 0..MaxShortLen}
    \cup {Pattern(n, stride) : n \in 1..MaxSamples, stride \in {1, 7, 210}}

StatsInit ==
    /\ num_users = 0
    /\ duration = 1
    /\ pc = <<>> /\ running = <<>> /\ connected = <<>> /\ spawned = <<>>
    /\ latencies = <<>> /\ packets_sent = <<>> /\ packets_received = <<>>
    /\ attempts = <<>> /\ rpc = <<>> /\ wire = <<>>
    /\ stalled = {}
    /\ dpc = "stats"
    /\ batch_start = 0
    /\ connected_count = 0
    /\ spawned_count = 0
    /\ all_latencies \in StatsInputs
    /\ total_packets_sent = 0
    /\ total_packets_received = 0
    /\ result = NoResult
    /\ launched = <<>>
    /\ NoMain /\ NoPacket

\* `if all_latencies: ... else: ...` applied to the given pooled sequence.
ApplyStats ==
    /\ dpc = "stats"
    /\ result' = LatencyStats(all_latencies)
    /\ dpc' = "done"
    /\ UNCHANGED <<outerVars, num_users, duration, sessVars, batch_start, connected_count,
                   spawned_count, all_latencies, total_packets_sent,
                   total_packets_received>>

StatsNext == ApplyStats

StatsSpec == StatsInit /\ [][StatsNext]_vars

\* ------------------------------- one session, one tick, a healthy server
\* measure_latency(duration = one tick interval) of a single bot against a
\* server that answers Init with an accept frame at once and keeps reading:
\* connect and every send succeed, the first handshake receive returns the
\* accept frame, and the driver's window is still open (its stop comes
\* seconds after a one-tick window has closed).
ScenarioInit == Init /\ num_users = 1 /\ duration = 1

ScenarioSessionStep(b) ==
    \/ ConnectOk(b)
    \/ InitSendOk(b)
    \/ AcceptRecv(b, <<AcceptTag>>)
    \/ StartReceiveTask(b)
    \/ SpawnSendOk(b)
    \/ EnterLoop(b)
    \/ InputSendOk(b)
    \/ \E latency \in LatencyValues, elapsed \in BOOLEAN : Tick(b, latency, elapsed)
    \/ Close(b)

ScenarioReceiveStep(b) ==
    \/ RecvStart(b)
    \/ \E msg \in ServerFrames : RecvMsg(b, msg)
    \/ RecvTimeout(b)
    \/ RecvCancelled(b)

ScenarioNext ==
    \/ LaunchBatch
    \/ CountFlags
    \/ \E b \in BotIds : ScenarioSessionStep(b)
    \/ \E b \in BotIds : ScenarioReceiveStep(b)

\* The event loop runs the task whenever the await it is suspended in is over.
ScenarioSpec ==
    /\ ScenarioInit
    /\ [][ScenarioNext]_vars
    /\ WF_vars(LaunchBatch)
    /\ \A b \in BotIds :
           WF_vars(ScenarioSessionStep(b)) /\ WF_vars(ScenarioReceiveStep(b))

\* ------------------------------------------------- the launch, many bots
\* The batch loop of run_benchmark for user counts that need several batches.
\* Of the sessions, only the first of batch one and the first of batch two
\* take steps (their connect attempt resolves), enough to interleave session
\* progress with the launches.
LaunchInit ==
    /\ num_users \in 1..MaxLaunchUsers
    /\ duration = 1
    /\ pc = [b \in Bots |-> "created"]
    /\ running = [b \in Bots |-> TRUE]
    /\ connected = [b \in Bots |-> FALSE]
    /\ spawned = [b \in Bots |-> FALSE]
    /\ latencies = [b \in Bots |-> <<>>]
    /\ packets_sent = [b \in Bots |-> 0]
    /\ packets_received = [b \in Bots |-> 0]
    /\ attempts = [b \in Bots |-> 0]
    /\ rpc = [b \in Bots |-> "none"]
    /\ stalled = {}
    /\ wire = [b \in Bots |-> <<>>]
    /\ dpc = "launch"
    /\ batch_start = 0
    /\ connected_count = 0
    /\ spawned_count = 0
    /\ all_latencies = <<>>
    /\ total_packets_sent = 0
    /\ total_packets_received = 0
    /\ result = NoResult
    /\ launched = <<>>
    /\ NoMain /\ NoPacket

BatchLeaders == {0, batch_size}

LaunchNext ==
    \/ LaunchBatch
    \/ \E b \in BatchLeaders : ConnectOk(b)
    \/ \E b \in BatchLeaders : ConnectFail(b)

LaunchSpec == LaunchInit /\ [][LaunchNext]_vars

\* ------------------------------------------------------------------- main
\* The orchestrator.  run_benchmark is seen from main as a call that returns a
\* level result; which result depends on the server, so it is any of
\* LevelOutcomes.  The level's own variables stay empty here.
\* test_cases = [1] + list(range(100, 1001, 100))
test_cases == <<1>> \o [k \in 1..10 |-> 100 * k]

\* Pooled samples of a level in which sessions recorded some.
SomeLatencies == <<51, 50>>

\* The dict run_benchmark returns for n users of which c connected (the fields
\* main reads and writes; packet counts and duration are left out).
OutcomeOf(n, c, pooled) ==
    [users |-> n, connected |-> c, spawned |-> c,
     success_rate |-> [num |-> c * 100, den |-> n]] @@ LatencyStats(pooled)

\* The two extremes: nobody connected and nothing was recorded, or everybody
\* connected and samples were recorded.
LevelOutcomes(n) == {OutcomeOf(n, 0, <<>>), OutcomeOf(n, n, SomeLatencies)}

MainInit ==
    /\ mpc = "probe" /\ case_index = 0 /\ results = <<>> /\ csv_rows = <<>>
    /\ bots_made = 0
    /\ num_users = 0
    /\ duration = 1
    /\ pc = <<>> /\ running = <<>> /\ connected = <<>> /\ spawned = <<>>
    /\ latencies = <<>> /\ packets_sent = <<>> /\ packets_received = <<>>
    /\ attempts = <<>> /\ rpc = <<>> /\ wire = <<>>
    /\ stalled = {}
    /\ dpc = "idle"
    /\ batch_start = 0
    /\ connected_count = 0
    /\ spawned_count = 0
    /\ all_latencies = <<>>
    /\ total_packets_sent = 0
    /\ total_packets_received = 0
    /\ result = NoResult
    /\ launched = <<>>
    /\ NoPacket

levelVars == <<duration, sessVars, dpc, batch_start, connected_count,
               spawned_count, all_latencies, total_packets_sent,
               total_packets_received, launched>>

\* check_server_connection(): connect within 5.0 s and close: returns True.
ProbeOk ==
    /\ mpc = "probe"
    /\ mpc' = "prompt"
    /\ UNCHANGED <<case_index, results, csv_rows, bots_made, num_users, result,
                   levelVars, packetVars>>

\* TimeoutError, ConnectionRefusedError or any other Exception: returns False,
\* and main prints the diagnostic and returns.
ProbeFail ==
    /\ mpc = "probe"
    /\ mpc' = "aborted"
    /\ UNCHANGED <<case_index, results, csv_rows, bots_made, num_users, result,
                   levelVars, packetVars>>

\* input() returns; results = [].
PromptEnter ==
    /\ mpc = "prompt"
    /\ mpc' = "sweep"
    /\ results' = <<>>
    /\ UNCHANGED <<case_index, csv_rows, bots_made, num_users, result, levelVars,
                   packetVars>>

\* input() raises EOFError (standard input closed): main ends with it.
PromptEof ==
    /\ mpc = "prompt"
    /\ mpc' = "raised"
    /\ UNCHANGED <<case_index, results, csv_rows, bots_made, num_users, result,
                   levelVars, packetVars>>

StartLevelWithoutReturn ==
    /\ mpc \in {"sweep", "aborted"}
    /\ case_index < Len(test_cases)
    /\ num_users' = test_cases[case_index + 1]
    /\ bots_made' = bots_made + test_cases[case_index + 1]
    /\ mpc' = "level"
    /\ UNCHANGED <<case_index, results, csv_rows, result, levelVars, packetVars>>
\* Next pass of `for i, num_users in enumerate(test_cases)`: run_benchmark is
\* called and constructs its bots.
StartLevel ==
    /\ mpc = "sweep"
    /\ case_index < Len(test_cases)
    /\ num_users' = test_cases[case_index + 1]
    /\ bots_made' = bots_made + test_cases[case_index + 1]
    /\ mpc' = "level"
    /\ UNCHANGED <<case_index, results, csv_rows, result, levelVars, packetVars>>

\* is_final = (i == len(test_cases) - 1)
is_final == case_index = Len(test_cases) - 1

FinishLevelStopsOnFailure(outcome) ==
    /\ mpc = "level"
    /\ outcome \in LevelOutcomes(num_users)
    /\ result' = outcome
    /\ results' = Append(results, outcome)
    /\ case_index' = case_index + 1
    /\ mpc' = IF is_final \/ outcome.connected = 0 THEN "save" ELSE "sweep"
    /\ UNCHANGED <<csv_rows, bots_made, num_users, levelVars, packetVars>>
\* run_benchmark returns: results.append(result); unless is_final, sleep(10).
FinishLevel(outcome) ==
    /\ mpc = "level"
    /\ outcome \in LevelOutcomes(num_users)
    /\ result' = outcome
    /\ results' = Append(results, outcome)
    /\ case_index' = case_index + 1
    /\ mpc' = IF is_final THEN "save" ELSE "sweep"
    /\ UNCHANGED <<csv_rows, bots_made, num_users, levelVars, packetVars>>

\* The CSV file: writeheader(), then one writerow per element of results.
SaveResults ==
    /\ mpc = "save"
    /\ csv_rows' = results
    /\ mpc' = "exit"
    /\ UNCHANGED <<case_index, results, bots_made, num_users, result, levelVars,
                   packetVars>>

SweepStep ==
    \/ StartLevel
    \/ \E n \in {test_cases[i] : i \in 1..Len(test_cases)} :
           \E outcome \in LevelOutcomes(n) : FinishLevel(outcome)
    \/ SaveResults

MainNext == ProbeOk \/ ProbeFail \/ PromptEnter \/ PromptEof \/ SweepStep

\* The event loop resumes main after every sleep, and run_benchmark returns.
\* Nothing obliges the probe or the operator at the prompt.
MainSpec == MainInit /\ [][MainNext]_vars /\ WF_vars(SweepStep)

\* ---------------------------------------------------------- client frames
\* A byte is an integer in 0..255; a frame is a sequence of bytes.
\* The n low-order bytes of v, least significant first (the '<' of struct).
RECURSIVE LittleEndian(_, _)
LittleEndian(v, n) ==
    IF n = 0 THEN <<>> ELSE <<v % 256>> \o LittleEndian(v \div 256, n - 1)

\* struct format characters: B unsigned char, i int (two's complement: \div
\* and % round towards minus infinity, as an arithmetic shift does), f float.
PackB(v) == LittleEndian(v, 1)
PackI(v) == LittleEndian(v, 4)
\* IEEE 754 binary32 of the value h / 2 for h in -2..2 (0, +-0.5, +-1.0): the
\* upper 16 bits hold the sign, the 8-bit biased exponent and the top of the
\* fraction; the fraction is zero, and so are the lower 16 bits.
Float32Upper(h) ==
    LET sign == IF h < 0 THEN 1 ELSE 0
        mag == IF h < 0 THEN -h ELSE h
        exponent == IF mag = 0 THEN 0 ELSE IF mag = 1 THEN 126 ELSE 127
    IN  sign * (2 ^ 15) + exponent * (2 ^ 7)
PackF(h) == LittleEndian(0, 2) \o LittleEndian(Float32Upper(h), 2)

\* str(n).encode('utf-8'): the ASCII decimal digits of n >= 0.
RECURSIVE DecimalDigits(_)
DecimalDigits(n) ==
    IF n < 10 THEN <<48 + n>> ELSE Append(DecimalDigits(n \div 10), 48 + (n % 10))

\* "6f59094d60f98fafc14371671d3ff31ef4d75d9e".encode('utf-8')
build_hash ==
    <<54, 102, 53, 57, 48, 57, 52, 100, 54, 48, 102, 57, 56, 102, 97, 102, 99, 49,
      52, 51, 55, 49, 54, 55, 49, 100, 51, 102, 102, 51, 49, 101, 102, 52, 100, 55,
      53, 100, 57, 101>>
\* "".encode('utf-8')
password == <<>>
\* "bot".encode('utf-8')
BotPrefix == <<98, 111, 116>>

init_packet == PackB(ServerBound_Init) \o build_hash \o <<0>> \o password \o <<0>>

spawn_packet_untagged(bot_id) == BotPrefix \o DecimalDigits(bot_id) \o <<0>>
spawn_packet(bot_id) ==
    PackB(ServerBound_Spawn) \o BotPrefix \o DecimalDigits(bot_id) \o <<0>>

\* struct.pack('<Biffff', ServerBound.Input, flags, x1, y1, x2, y2)
input_packet(flags, axes) ==
    PackB(ServerBound_Input) \o PackI(flags)
        \o PackF(axes[1]) \o PackF(axes[2]) \o PackF(axes[3]) \o PackF(axes[4])

\* 0, or one of InputFlags.LeftClick, Up, Left, Down, Right.
InputFlagChoices == {0, 1, 2, 4, 8, 16}
\* random.uniform(-1, 1) and random.uniform(-0.5, 0.5), in halves.
MoveAxisHalves == -2 .. 2
AimAxisHalves == -1 .. 1
\* Bot ids whose names have one, two and three digits.
SomeBotIds == {0, 9, 10, 42, 999}

ClientMessages ==
    {[kind |-> "Init"]}
    \cup {[kind |-> "Spawn", bot_id |-> i] : i \in SomeBotIds}
    \cup {[kind |-> "Input", flags |-> f, axes |-> <<a, b, c, d>>] :
             f \in InputFlagChoices, a \in MoveAxisHalves, b \in MoveAxisHalves,
             c \in AimAxisHalves, d \in AimAxisHalves}

Encode(m) ==
    CASE m.kind = "Init" -> init_packet
      [] m.kind = "Spawn" -> spawn_packet(m.bot_id)
      [] m.kind = "Input" -> input_packet(m.flags, m.axes)

\* ServerBound(tag).name; "invalid" where the enum lookup raises ValueError.
KindOfTag(tag) ==
    CASE tag = ServerBound_Init -> "Init"
      [] tag = ServerBound_Input -> "Input"
      [] tag = ServerBound_Spawn -> "Spawn"
      [] OTHER -> "invalid"

PacketInit ==
    /\ message \in ClientMessages
    /\ encoded = <<>>
    /\ NoMain
    /\ num_users = 0
    /\ duration = 1
    /\ pc = <<>> /\ running = <<>> /\ connected = <<>> /\ spawned = <<>>
    /\ latencies = <<>> /\ packets_sent = <<>> /\ packets_received = <<>>
    /\ attempts = <<>> /\ rpc = <<>> /\ wire = <<>>
    /\ stalled = {}
    /\ dpc = "idle"
    /\ batch_start = 0
    /\ connected_count = 0
    /\ spawned_count = 0
    /\ all_latencies = <<>>
    /\ total_packets_sent = 0
    /\ total_packets_received = 0
    /\ result = NoResult
    /\ launched = <<>>

\* The frame handed to websocket.send().
Pack ==
    /\ encoded = <<>>
    /\ encoded' = Encode(message)
    /\ UNCHANGED <<message, mainVars, num_users, result, levelVars>>

PacketNext == Pack

PacketSpec == PacketInit /\ [][PacketNext]_vars

\* ============================================================ properties
LevelDone == dpc = "done"
\* The step in which run_benchmark pools the sessions and builds its result.
Aggregates == dpc = "collect" /\ dpc' = "done"

\* C1: whenever run_benchmark has pooled latencies / packets_sent /
\* packets_received, no launched session is still connecting, handshaking,
\* spawning or in its Active loop, and no receive task is still running.
Quiesced(b) ==
    /\ pc[b] \in {"closing", "closed", "failed"}
    /\ rpc[b] \notin {"ready", "recv"}
C1_ReadsOnlyFinishedSessions == LevelDone => \A b \in Bots : Quiesced(b)

\* C2: in every state, a session with spawned = true has connected = true and
\* has already put at least one Spawn frame on the wire.
SpawnFramesSent(b) == Cardinality({i \in 1..Len(wire[b]) : wire[b][i] = ServerBound_Spawn})
C2_SpawnedAfterSpawnSent ==
    \A b \in Bots : spawned[b] => connected[b] /\ SpawnFramesSent(b) >= 1

\* C3: the connected and spawned counts of the result equal the numbers of
\* sessions whose connected, respectively spawned, flag is true in the step
\* that builds the result.
C3_CountsAtAggregation ==
    [][Aggregates => /\ result'.connected = CountConnected
                     /\ result'.spawned = CountSpawned]_vars

\* C4: a failed send of an Init, Spawn or Input frame moves the session to
\* disconnecting and changes no other session and not the driver.
SendFails(b) == InitSendFail(b) \/ SpawnSendFail(b) \/ InputSendFail(b)
OthersUntouched(b) ==
    \A c \in Bots \ {b} :
        /\ pc'[c] = pc[c] /\ running'[c] = running[c] /\ rpc'[c] = rpc[c]
        /\ latencies'[c] = latencies[c] /\ packets_sent'[c] = packets_sent[c]
C4_SendFailureEndsSession ==
    [][\A b \in Bots :
          SendFails(b) => pc'[b] = "closing" /\ OthersUntouched(b) /\ dpc' = dpc]_vars

\* C5: under fair scheduling every launched session eventually reaches
\* Closed or Failed.
C5_EverySessionEnds ==
    \A b \in BotIds :
        (b \in Bots /\ pc[b] # "created")
            ~> (b \in Bots /\ pc[b] \in {"closed", "failed"})

\* C6: in the step that pools, the pooled sequence is the concatenation of the
\* sessions' latency sequences in session-id order, each in recorded order:
\* its length is the sum of their lengths and the i-th sample of session b sits
\* at position (samples of sessions before b) + i, so none is lost or repeated.
RECURSIVE SamplesBefore(_)
SamplesBefore(b) == IF b = 0 THEN 0 ELSE SamplesBefore(b - 1) + Len(latencies[b - 1])
RECURSIVE SumOver(_, _)
SumOver(f, S) ==
    IF S = {} THEN 0 ELSE LET x == CHOOSE x \in S : TRUE IN f[x] + SumOver(f, S \ {x})
C7_PacketTotalsAreSums ==
    [][Aggregates =>
          /\ result'.packets_sent = SumOver(packets_sent, Bots)
          /\ result'.packets_received = SumOver(packets_received, Bots)
          /\ total_packets_sent' = result'.packets_sent
          /\ total_packets_received' = result'.packets_received]_vars
C7_Witness ==
    /\ LevelDone /\ num_users = 2
    /\ \A b \in Bots : packets_sent[b] >= 2 /\ packets_received[b] = 1
    /\ packets_sent[0] # packets_sent[1]
    /\ result.packets_sent = packets_sent[0] + packets_sent[1]
    /\ result.packets_received = 2

\* C8: for a non-empty pooled sequence,
\* min <= median <= p95 <= p99 <= p99.5 <= max.
C8_StatisticsOrdered ==
    (LevelDone /\ all_latencies # <<>>) =>
        /\ result.min_latency <= result.median_latency
        /\ result.median_latency <= result.p95_latency
        /\ result.p95_latency <= result.p99_latency
        /\ result.p99_latency <= result.p99_5_latency
        /\ result.p99_5_latency <= result.max_latency
C8_Witness ==
    /\ LevelDone /\ Len(all_latencies) > 200
    /\ \E i \in 1..(Len(all_latencies) - 1) : all_latencies[i] > all_latencies[i + 1]
    /\ result.min_latency < result.median_latency
    /\ result.median_latency < result.p95_latency
    /\ result.p95_latency < result.p99_latency
    /\ result.p99_latency < result.p99_5_latency
    /\ result.p99_5_latency < result.max_latency

\* C9: a level in which no session recorded a sample still returns a result,
\* with avg, median, min, max, p95, p99 and p99.5 all 0.
C9_EmptyPoolGivesZeros ==
    (LevelDone /\ all_latencies = <<>>) =>
        /\ result.users = num_users
        /\ result.avg_latency.num = 0
        /\ result.median_latency = 0 /\ result.min_latency = 0
        /\ result.max_latency = 0 /\ result.p95_latency = 0
        /\ result.p99_latency = 0 /\ result.p99_5_latency = 0
C9_Witness ==
    /\ LevelDone /\ all_latencies = <<>> /\ num_users = 2
    /\ \A b \in Bots : latencies[b] = <<>>
    /\ \E b \in Bots : connected[b] /\ packets_sent[b] > 0

\* C10: for N > 0 samples each percentile p in {0.95, 0.99, 0.995} is the
\* element at index floor(p * N) of the ascending order, the median the
\* element at index N div 2, every index below N; [10,20,30,40,100] gives
\* median 30, p95 100, p99.5 100.
\* v stands at zero-based index k of the ascending order of s.
IsRanked(s, k, v) ==
    /\ \E i \in 1..Len(s) : s[i] = v
    /\ Cardinality({i \in 1..Len(s) : s[i] < v}) <= k
    /\ k < Cardinality({i \in 1..Len(s) : s[i] <= v})
\* k = floor(n * num / den)
IsFloor(k, n, num, den) == k * den <= n * num /\ n * num < (k + 1) * den
AtFloorIndex(s, num, den, v) ==
    \E k \in 0..(Len(s) - 1) : IsFloor(k, Len(s), num, den) /\ IsRanked(s, k, v)
C10_PercentilesByFloorIndex ==
    (LevelDone /\ all_latencies # <<>>) =>
        /\ AtFloorIndex(all_latencies, 1, 2, result.median_latency)
        /\ AtFloorIndex(all_latencies, 95, 100, result.p95_latency)
        /\ AtFloorIndex(all_latencies, 99, 100, result.p99_latency)
        /\ AtFloorIndex(all_latencies, 995, 1000, result.p99_5_latency)
        /\ (all_latencies = <<10, 20, 30, 40, 100>> =>
                /\ result.median_latency = 30
                /\ result.p95_latency = 100
                /\ result.p99_5_latency = 100)
C10_Witness ==
    /\ LevelDone /\ all_latencies = <<10, 20, 30, 40, 100>>
    /\ result.median_latency = 30 /\ result.p95_latency = 100

\* C11: a session whose connect attempt failed never has connected or spawned
\* set, has sent and received no frame and has no latency sample; when the
\* result is built, its connected count is the number of sessions whose connect
\* did not fail and the pooled samples are those of exactly these sessions.
ConnectFailed(b) == pc[b] = "failed"
RECURSIVE PoolOfConnecting(_)
PoolOfConnecting(k) ==
    IF k = 0 THEN <<>>
    ELSE PoolOfConnecting(k - 1)
             \o (IF ConnectFailed(k - 1) THEN <<>> ELSE latencies[k - 1])
C11_FailedConnectLeavesNoTrace ==
    /\ [](\A b \in Bots :
             ConnectFailed(b) =>
                 /\ ~connected[b] /\ ~spawned[b]
                 /\ packets_sent[b] = 0 /\ packets_received[b] = 0
                 /\ wire[b] = <<>> /\ latencies[b] = <<>>)
    /\ [][Aggregates =>
             /\ result'.connected = Cardinality({b \in Bots : ~ConnectFailed(b)})
             /\ all_latencies' = PoolOfConnecting(num_users)]_vars
C11_Witness ==
    /\ LevelDone /\ num_users = 2
    /\ ConnectFailed(1) /\ connected[0] /\ Len(latencies[0]) = 1
    /\ result.connected = 1 /\ result.users = 2
    /\ all_latencies = latencies[0]

\* C12: whatever connect, send and receive failures the sessions meet, all of
\* them failing included, run_benchmark reaches its return with a result for
\* the level, and no step of a session or of its receive task changes the
\* driver's position or locals.
TaskStep(b) == SessionStep(b) \/ ReceiveStep(b) \/ SendHangs(b)
C12_LevelAlwaysReturns ==
    /\ <>(LevelDone /\ result.users = num_users)
    /\ [][(\E b \in BotIds : TaskStep(b)) => UNCHANGED driverVars]_vars
C12_Witness ==
    /\ LevelDone /\ result.users = num_users
    /\ \A b \in Bots : ConnectFailed(b)
    /\ result.connected = 0 /\ result.success_rate.num = 0

\* C13: when the reachability probe fails, main stops there: no level is
\* started, no BenchmarkBot is constructed, nothing is appended to results and
\* no row is written, then or later.
C13_FailedProbeRunsNothing ==
    /\ [][ProbeFail => mpc' = "aborted"]_vars
    /\ [][mpc = "aborted" => UNCHANGED <<mainVars, num_users, result>>]_vars
    /\ [](mpc = "aborted" =>
             /\ case_index = 0 /\ bots_made = 0
             /\ results = <<>> /\ csv_rows = <<>>
             /\ num_users = 0 /\ result = NoResult)
C13_Witness ==
    /\ mpc = "aborted" /\ bots_made = 0 /\ results = <<>> /\ csv_rows = <<>>
    /\ ~ENABLED MainNext

\* C14: once the sweep has begun, results always lists, in order, one result
\* for each of the first case_index user counts of test_cases, each level has
\* been started once, a step only ever appends one result, the sweep runs on to
\* the last count whatever the levels returned, and the rows written are the
\* results in that order.
RECURSIVE UsersUpTo(_)
UsersUpTo(k) == IF k = 0 THEN 0 ELSE UsersUpTo(k - 1) + test_cases[k]
LevelsStarted == case_index + (IF mpc = "level" THEN 1 ELSE 0)
C14_SweepRunsEveryLevelInOrder ==
    /\ [](/\ Len(results) = case_index /\ case_index <= Len(test_cases)
          /\ \A i \in 1..Len(results) : results[i].users = test_cases[i]
          /\ bots_made = UsersUpTo(LevelsStarted)
          /\ (mpc \in {"save", "exit"} => Len(results) = Len(test_cases))
          /\ (mpc = "exit" => csv_rows = results))
    /\ [][results' = results
            \/ (Len(results') = Len(results) + 1
                /\ SubSeq(results', 1, Len(results)) = results)]_vars
    /\ ((mpc = "sweep") ~> (mpc = "exit" /\ Len(csv_rows) = Len(test_cases)))
C14_Witness ==
    /\ mpc = "exit" /\ Len(results) = Len(test_cases)
    /\ results[1].connected = 0
    /\ results[2].connected = 100 /\ results[2].max_latency = 51
    /\ results[3].connected = 0
    /\ results[Len(results)].users = 1000
    /\ csv_rows = results

\* C15: every Input frame is the tag byte 1, one byte of flags and four
\* 4-byte little-endian floats: 18 bytes.
C15_InputFrameIs18Bytes ==
    (message.kind = "Input" /\ encoded # <<>>) =>
        /\ Len(encoded) = 18
        /\ encoded[1] = 1
        /\ encoded[2] = message.flags
        /\ SubSeq(encoded, 3, 18)
               = PackF(message.axes[1]) \o PackF(message.axes[2])
                     \o PackF(message.axes[3]) \o PackF(message.axes[4])

\* C16: the first byte of an encoded Init, Input or Spawn frame is 0, 1 or 2
\* respectively, and looking that byte up gives back the kind encoded.
TagOfKind(kind) ==
    CASE kind = "Init" -> 0 [] kind = "Input" -> 1 [] kind = "Spawn" -> 2
C16_LeadingByteIsKind ==
    encoded # <<>> =>
        /\ encoded[1] = TagOfKind(message.kind)
        /\ KindOfTag(encoded[1]) = message.kind
C16_Witness ==
    /\ message.kind = "Spawn" /\ message.bot_id = 42
    /\ encoded = <<2, 98, 111, 116, 52, 50, 0>>

\* C17: a session awaits connect() once, as the first step of its task.  A
\* failed attempt leaves it in Failed for good with connected still false; a
\* successful one sets connected for good; no later step starts another
\* attempt.
C17_OneConnectAttempt ==
    [][\A b \in Bots :
          /\ (pc'[b] = "connect" => pc[b] \in {"created", "connect"})
          /\ (ConnectFail(b) => pc'[b] = "failed")
          /\ (pc[b] = "failed" => pc'[b] = "failed" /\ ~connected'[b])
          /\ (connected'[b] /\ ~connected[b] => pc[b] = "connect")
          /\ (connected[b] => connected'[b])]_vars
C17_Witness ==
    /\ LevelDone /\ num_users = 2
    /\ pc[0] = "failed" /\ ~connected[0]
    /\ pc[1] = "closed" /\ connected[1] /\ wire[1] = <<0>>

\* C18: the handshake makes at most 10 receive attempts; an attempt that
\* receives a frame whose first byte is 7 ends the poll; any other attempt that
\* returns (a timeout, or another frame) is counted and, when it is the tenth,
\* ends the poll too; and after the poll the session goes on to send Spawn.
AcceptFrame(msg) == Len(msg) > 0 /\ msg[1] = AcceptTag
PollAccepted(b) == \E msg \in ServerFrames : AcceptFrame(msg) /\ AcceptRecv(b, msg)
PollMissed(b) ==
    \/ AcceptTimeout(b)
    \/ \E msg \in ServerFrames : ~AcceptFrame(msg) /\ AcceptRecv(b, msg)
C18_HandshakeBestEffort ==
    /\ [](\A b \in Bots : attempts[b] < HandshakeAttempts)
    /\ [][\A b \in Bots :
             /\ (PollAccepted(b) => pc'[b] = "settle")
             /\ (PollMissed(b) =>
                    IF attempts[b] = HandshakeAttempts - 1
                    THEN pc'[b] = "settle"
                    ELSE pc'[b] = "accept" /\ attempts'[b] = attempts[b] + 1)
             /\ (pc[b] = "settle" /\ pc'[b] # "settle" => pc'[b] = "spawn1")]_vars
C18_Witness ==
    \E b \in Bots :
        /\ pc[b] = "spawn2" /\ wire[b] = <<0, 2>>
        /\ packets_received[b] = 0 /\ rpc[b] = "recv"

\* C19: the step that computes the level summary changes no session's latency
\* sequence, counters or flags, and the summary computed again from the
\* sessions as that step left them is the result it returned.
Summary == LevelResult(LatencyStats(PoolLatencies(num_users)))
C19_SummaryRepeatableAndReadOnly ==
    [][Aggregates =>
          /\ UNCHANGED <<latencies, packets_sent, packets_received, connected,
                         spawned, running>>
          /\ result' = Summary']_vars
C19_Witness ==
    /\ LevelDone /\ num_users = 2
    /\ latencies[0] = <<51>> /\ latencies[1] = <<50>>
    /\ result = Summary /\ result.min_latency = 50 /\ result.max_latency = 51

\* C20: one session, a window of one tick and a server that answers Init with
\* an accept frame: the session enters its loop, sends one Input frame,
\* records one latency sample and leaves the loop with exactly that one.
LeftLoop(b) == pc[b] \in {"closing", "closed"}
C20_OneTickOneSample ==
    /\ [](Len(latencies[0]) <= 1)
    /\ [](LeftLoop(0) => Len(latencies[0]) = 1 /\ wire[0] = <<0, 2, 2, 1>>)
    /\ <>(pc[0] = "input")
    /\ <>(LeftLoop(0) /\ Len(latencies[0]) = 1)
C20_Witness ==
    /\ pc[0] = "closed" /\ Len(latencies[0]) = 1 /\ latencies[0][1] \in LatencyValues
    /\ packets_sent[0] = 4 /\ packets_received[0] >= 1 /\ duration = 1

\* C21: once a session's running flag is false it stays false, no step starts
\* a new Input send, a step that records a sample records one and is the step
\* that leaves the loop and begins disconnect, and a session that has begun
\* disconnect records nothing more: so at most one sample follows the clearing.
Disconnecting(b) == pc[b] \in {"closing", "closed"}
C21_StopPolledOncePerTick ==
    [][\A b \in Bots :
          /\ (~running[b] =>
                 /\ ~running'[b]
                 /\ (pc'[b] = "input" => pc[b] = "input")
                 /\ (latencies'[b] # latencies[b] =>
                        /\ Len(latencies'[b]) = Len(latencies[b]) + 1
                        /\ pc[b] = "tick" /\ pc'[b] = "closing"))
          /\ (Disconnecting(b) =>
                 latencies'[b] = latencies[b] /\ pc'[b] \in {"closing", "closed"})]_vars
C21_Witness ==
    /\ LevelDone /\ num_users = 1 /\ duration = 2
    /\ all_latencies = <<>> /\ Len(latencies[0]) = 1
    /\ pc[0] = "closing" /\ wire[0] = <<0, 2, 2, 1>>

\* C22: the driver launches ids 0, 1, 2, ... in that order, each once; one
\* launch step starts a whole batch of at most batch_size sessions, whatever the
\* sessions launched earlier are doing; when the launch is over all num_users
\* sessions have been launched, in ceil(num_users / batch_size) batches.
BatchesDone == batch_start \div batch_size
C22_LaunchInBatches ==
    /\ [](/\ Len(launched) <= num_users
          /\ \A i \in 1..Len(launched) : launched[i] = i - 1
          /\ \A b \in Bots : (pc[b] = "created") = (b >= Len(launched))
          /\ (dpc = "launch" => ENABLED LaunchBatch)
          /\ (dpc = "launch" => Len(launched) = batch_size * BatchesDone)
          /\ (dpc # "launch" =>
                 /\ Len(launched) = num_users
                 /\ BatchesDone = (num_users + batch_size - 1) \div batch_size))
    /\ [][/\ Len(launched') - Len(launched) <= batch_size
          /\ SubSeq(launched', 1, Len(launched)) = launched
          /\ (launched' # launched => batch_start' = batch_start + batch_size)]_vars
C22_Witness ==
    /\ num_users = 101 /\ dpc = "settle" /\ BatchesDone = 3
    /\ Len(launched) = 101 /\ launched[51] = 50 /\ launched[101] = 100
    /\ pc[0] = "failed" /\ pc[50] = "connect" /\ pc[100] = "connect"

\* C23: the frames a session has sent are Init, then at most two Spawn, then
\* Input frames only; a Spawn send is awaited only after the Init send returned
\* and the handshake poll ended; the first Spawn attempt is followed by the
\* second and only the second by the loop; an Input send is awaited only from
\* the loop, so after both Spawn attempts returned.
IsSendOrder(w) ==
    \A i \in 1..Len(w) :
        /\ (w[i] = ServerBound_Init) = (i = 1)
        /\ (w[i] = ServerBound_Spawn => i <= 3)
        /\ (w[i] = ServerBound_Input => \A j \in (i + 1)..Len(w) : w[j] = ServerBound_Input)
C23_InitThenSpawnThenInput ==
    /\ [](\A b \in Bots :
             /\ IsSendOrder(wire[b])
             /\ (pc[b] \in {"spawn1", "spawn2", "loop", "input", "tick"} =>
                    Len(wire[b]) >= 1 /\ wire[b][1] = ServerBound_Init))
    /\ [][\A b \in Bots :
             /\ (pc'[b] = "spawn1" /\ pc[b] # "spawn1" => pc[b] = "settle")
             /\ (pc'[b] = "settle" /\ pc[b] # "settle" => pc[b] = "accept")
             /\ (pc[b] = "spawn1" /\ pc'[b] # "spawn1" => pc'[b] = "spawn2")
             /\ (pc'[b] = "loop" /\ pc[b] # "loop" => pc[b] = "spawn2")
             /\ (pc'[b] = "input" /\ pc[b] # "input" => pc[b] \in {"loop", "tick"})
             /\ (pc'[b] = "tick" /\ pc[b] # "tick" => pc[b] = "input")]_vars
C23_Witness ==
    \E b \in Bots : wire[b] = <<0, 2, 2, 1, 1>> /\ pc[b] = "tick"

\* C24: packets_received of a session grows by one in exactly the steps in
\* which that session receives a frame, in the handshake poll or in the receive
\* task, and in no other step; a receive timeout in the task changes no field
\* of the session and the task tests its loop again; a receive error ends the
\* task of that session and touches nothing else of it nor any other session.
ReceivesFrame(b) ==
    \/ \E msg \in ServerFrames : AcceptRecv(b, msg)
    \/ \E msg \in ServerFrames : RecvMsg(b, msg)
FieldsOf(b) ==
    <<running[b], connected[b], spawned[b], latencies[b], packets_sent[b],
      packets_received[b], wire[b]>>
C24_ReceiveCountAndFailures ==
    [][\A b \in Bots :
          /\ (ReceivesFrame(b) => packets_received'[b] = packets_received[b] + 1)
          /\ (packets_received'[b] # packets_received[b] => ReceivesFrame(b))
          /\ (RecvTimeout(b) =>
                 /\ FieldsOf(b)' = FieldsOf(b) /\ pc'[b] = pc[b]
                 /\ rpc'[b] = IF running[b] THEN "recv" ELSE "done")
          /\ (RecvError(b) =>
                 /\ rpc'[b] = "done"
                 /\ FieldsOf(b)' = FieldsOf(b) /\ pc'[b] = pc[b]
                 /\ \A c \in Bots \ {b} :
                        FieldsOf(c)' = FieldsOf(c) /\ pc'[c] = pc[c] /\ rpc'[c] = rpc[c])]_vars
C24_Witness ==
    /\ num_users = 2
    /\ pc[0] = "accept" /\ attempts[0] = 1 /\ packets_received[0] = 1
    /\ rpc[1] = "done" /\ running[1] /\ spawned[1] /\ packets_received[1] = 1
    /\ pc[1] \in {"spawn1", "spawn2", "loop", "input", "tick"}

\* C25: from the creation of the receive task on, no step of the session's
\* main task changes packets_received or spawned, and no step of the receive
\* task changes packets_sent or the latency samples.
ReceiveTaskCreated(b) == rpc[b] # "none"
C25_TasksWriteDisjointState ==
    [][\A b \in Bots :
          /\ (SessionStep(b) /\ ReceiveTaskCreated(b) =>
                 packets_received'[b] = packets_received[b] /\ spawned'[b] = spawned[b])
          /\ (ReceiveStep(b) =>
                 /\ packets_sent'[b] = packets_sent[b]
                 /\ latencies'[b] = latencies[b] /\ wire'[b] = wire[b])]_vars
C25_Witness ==
    \E b \in Bots :
        /\ pc[b] = "tick" /\ rpc[b] = "recv"
        /\ packets_sent[b] = 5 /\ Len(latencies[b]) = 1
        /\ spawned[b] /\ packets_received[b] = 2

\* C26: under fair scheduling every session that connected eventually reaches
\* Closed with its receive task over (never created, or terminated).
ReceiveTaskOver(b) == rpc[b] \in {"none", "done"}
C26_ConnectedSessionCloses ==
    \A b \in BotIds :
        (b \in Bots /\ connected[b])
            ~> (b \in Bots /\ pc[b] = "closed" /\ ReceiveTaskOver(b))

\* C27: in every level result 0 <= spawned <= connected <= users, and
\* success_rate = 100 * connected / users lies between 0 and 100.
C27_LevelCountsOrdered ==
    LevelDone =>
        /\ 0 <= result.spawned /\ result.spawned <= result.connected
        /\ result.connected <= result.users /\ result.users >= 1
        /\ result.success_rate.num = 100 * result.connected
        /\ result.success_rate.den = result.users
        /\ 0 <= result.success_rate.num
        /\ result.success_rate.num <= 100 * result.success_rate.den
C27_Witness ==
    LevelDone /\ result.users = 2 /\ result.connected = 2 /\ result.spawned = 1

\* C28: a session has at most as many latency samples as Input frames sent
\* and at least that number minus one, and once it has a sample its
\* packets_sent is at least one (the Init frame) more than its samples.
InputsSent(b) ==
    Cardinality({i \in 1..Len(wire[b]) : wire[b][i] = ServerBound_Input})
C28_SamplesTrackInputs ==
    \A b \in Bots :
        /\ Len(latencies[b]) <= InputsSent(b)
        /\ Len(latencies[b]) >= InputsSent(b) - 1
        /\ Len(latencies[b]) >= 1 =>
              /\ packets_sent[b] >= 1 + Len(latencies[b])
              /\ wire[b][1] = ServerBound_Init
C28_Witness ==
    \E b \in Bots :
        /\ pc[b] = "tick" /\ InputsSent(b) = 2 /\ Len(latencies[b]) = 1
        /\ packets_sent[b] = 3

\* C29: at most one task waits to receive on a session's connection: while
\* the main task polls for the handshake answer no receive task exists,
\* and once the receive task exists the main task never polls again.
HandshakePolling(b) == pc[b] = "accept"
C29_OneReceiverAtATime ==
    /\ [](\A b \in Bots : HandshakePolling(b) => ~ReceiveTaskCreated(b))
    /\ [][\A b \in Bots :
             ReceiveTaskCreated(b) =>
                 /\ ~HandshakePolling(b)'
                 /\ (SessionStep(b) => packets_received'[b] = packets_received[b])]_vars
C29_Witness ==
    \E b \in Bots :
        /\ rpc[b] = "recv" /\ pc[b] = "spawn1"
        /\ packets_received[b] = 1 /\ wire[b] = <<ServerBound_Init>>

\* C30: a Closed session is frozen: it stays Closed with running false, sends
\* no further frame, keeps packets_sent and its latency samples, and neither
\* connected nor spawned is ever reset from true to false.
Closed(b) == pc[b] = "closed"
C30_ClosedIsFrozen ==
    /\ [](\A b \in Bots : Closed(b) => ~running[b])
    /\ [][\A b \in Bots :
             /\ Closed(b) =>
                   /\ Closed(b)' /\ ~running'[b]
                   /\ wire'[b] = wire[b]
                   /\ packets_sent'[b] = packets_sent[b]
                   /\ latencies'[b] = latencies[b]
             /\ connected[b] => connected'[b]
             /\ spawned[b] => spawned'[b]]_vars
C30_Witness ==
    \E b \in Bots :
        /\ Closed(b) /\ LevelDone /\ connected[b] /\ spawned[b] /\ ~running[b]
        /\ Len(latencies[b]) = 2 /\ packets_sent[b] = 5

====
